---- MODULE Spec2Model ----
(***************************************************************************)
(* The fact store (ast.DataContext), its path resolution (traceType,       *)
(* traceValue, traceSetValue, traceMethod) and the execution cycle that    *)
(* drives a knowledge base against it.                                     *)
(*                                                                         *)
(* Go values are records [kind, v]: kind is the reflect.Kind ("string",    *)
(* "int", "ptr", "struct", "invalid" for reflect.ValueOf(nil)) and v the   *)
(* payload written as a string (a handle of the caller's heap for "ptr").  *)
(***************************************************************************)
EXTENDS Integers, Sequences, FiniteSets, TLC

VARIABLES
    ctx,        \* the DataContext: ObjectStore, retracted, variableChangeCount, complete
    heap,       \* the caller's fact objects, by handle: the structs the store points to
    last,       \* the last call on the store and what it returned
    hRetract,   \* history: names given to Retract since the last Reset / ResetAllFiledZero
    hBound,     \* history: names Add has bound since the last ResetAllFiledZero
    hComplete,  \* history: Complete() was called since the last ResetAllFiledZero
    doSig,      \* the signature the fact's method Do is declared with
    hSets,      \* history: successful SetValue calls since ResetVariableChangeCount (-1: none such)
    state,      \* the execution cycle's state
    kb,         \* the knowledge base handed to Execute: a sequence of rules
    maxCycle,   \* the pass budget handed to Execute
    cycle,      \* the cycle driver's pass counter
    passes,     \* history: evaluate-then-fire passes started
    matched,    \* rules matched in this pass that have not fired yet, in firing order
    nmatched,   \* how many rules matched in this pass
    fired       \* history: per pass, the rules fired, in order, with the heap each saw
                \* and left and the increments of the counter it caused

historyVars == <<last, hRetract, hBound, hComplete, hSets>>
engineVars == <<state, kb, maxCycle, cycle, passes, matched, nmatched, fired>>
vars == <<ctx, heap, doSig, last, hRetract, hBound, hComplete, hSets,
          state, kb, maxCycle, cycle, passes, matched, nmatched, fired>>

----------------------------------------------------------------------------
(* Bounds of the model *)

\* longest retracted slice explored (Retract appends without limit)
MaxRetracted == 2
\* largest mutation counter explored (a uint64 in the code)
MaxCount == 2
\* largest pass budget explored
MaxCycleBound == 3
\* most parameters a method is declared with
MaxParams == 2
\* longest argument list handed to ExecMethod
MaxArgs == 3

----------------------------------------------------------------------------
(* The caller's objects *)

FactNames == {"User", "Order"}
Handles == {"h1", "h2"}
Strings == {"Watson", "FromRuleScope3"}

\* type AUser struct { Name string; Inner *AUser }: h1 points to h2, h2 to nil
InnerOf(h) == IF h = "h1" THEN "h2" ELSE "nil"

NilValue == [kind |-> "invalid", v |-> ""]
StrValue(s) == [kind |-> "string", v |-> s]
IntValue == [kind |-> "int", v |-> "7"]
PtrValue(h) == [kind |-> "ptr", v |-> h]
StructValue == [kind |-> "struct", v |-> "AUser{}"]

\* what a caller may hand to Add: a pointer to a struct, a struct, a pointer to an int
AddInputs == {PtrValue(h) : h \in Handles} \cup {StructValue, PtrValue("p_int")}
\* what a caller may hand to SetValue
SetInputs == {StrValue("FromRuleScope3"), IntValue}

ErrNone == "nil"
ErrRetracted == "fact is retracted"
ErrNotFound == "fact not found"
ErrNoAttrPath == "no attribute path specified"
ErrNoFuncPath == "no function path specified"
ErrInvalidFact == "you can only insert a pointer to struct as fact"
ErrAttribute == "attribute not found"
ErrTypeMismatch == "type mismatch"
ErrFunction == "error while fetching function parameter types"
ErrArgCount == "invalid argument count"
ErrArgTypes == "invalid argument types"
ErrVariadicTypes == "invalid variadic argument types"
ErrMultiReturn == "multiple return value"

----------------------------------------------------------------------------
(* Package pkg: one resolution step on an object (reflection helpers) *)

\* a non-nil pointer to a struct
IsObject(obj) == obj.kind = "ptr" /\ obj.v \in Handles

\* the interface value of a reflect value: same kind, same payload
ValueToInterface(val) == [kind |-> val.kind, v |-> val.v]

\* a reflect.Type, by its name
TypeValue(t) == [kind |-> "type", v |-> t]
NilType == TypeValue("nil")

ElemKind(obj) ==
    IF obj.kind # "ptr" \/ obj.v = "nil" THEN "invalid"
    ELSE IF obj.v \in Handles THEN "struct"
    ELSE "int"

TypeOf(obj) ==
    IF obj.kind = "ptr" THEN TypeValue("*AUser")
    ELSE IF obj.kind = "struct" THEN TypeValue("AUser")
    ELSE TypeValue(obj.kind)

GetAttributeValue(hp, obj, field) ==
    IF ~IsObject(obj) THEN [err |-> ErrAttribute, val |-> NilValue]
    ELSE IF field = "Name" THEN [err |-> ErrNone, val |-> StrValue(hp[obj.v].Name)]
    ELSE IF field = "Inner" THEN [err |-> ErrNone, val |-> PtrValue(InnerOf(obj.v))]
    ELSE [err |-> ErrAttribute, val |-> NilValue]

GetAttributeType(obj, field) ==
    IF ~IsObject(obj) THEN [err |-> ErrAttribute, val |-> NilType]
    ELSE IF field = "Name" THEN [err |-> ErrNone, val |-> TypeValue("string")]
    ELSE IF field = "Inner" THEN [err |-> ErrNone, val |-> TypeValue("*AUser")]
    ELSE [err |-> ErrAttribute, val |-> NilType]

\* a type-checked write of one field; SetInputs holds no pointer, so every
\* write to Inner is a mismatch
SetAttributeValue(hp, obj, field, newValue) ==
    IF ~IsObject(obj) THEN [err |-> ErrAttribute, heap |-> hp]
    ELSE IF field = "Name" THEN
        IF newValue.kind = "string"
        THEN [err |-> ErrNone, heap |-> [hp EXCEPT ![obj.v].Name = newValue.v]]
        ELSE [err |-> ErrTypeMismatch, heap |-> hp]
    ELSE IF field = "Inner" THEN [err |-> ErrTypeMismatch, heap |-> hp]
    ELSE [err |-> ErrAttribute, heap |-> hp]

\* the methods of *AUser; Do stands for a method of any signature
MethodNames == {"GetName", "SetName", "Do"}

\* a parameter's reflect.Type: its kind and, for a slice, its element's kind
KindType(k) == [kind |-> k, elem |-> ""]
SliceType(e) == [kind |-> "slice", elem |-> e]

\* the kinds a parameter of Do is declared with
ParamKinds == {"string", "int", "interface"}

\* func (u *AUser) Do(): no parameter, no return value
NoParams == [types |-> <<>>, variad |-> FALSE, nret |-> 0]

\* the signatures of Do: up to MaxParams parameters, the last one variadic
\* or not, and zero, one or two return values
Signatures ==
    LET Fixed(n) == [1..n -> {KindType(k) : k \in ParamKinds}] IN
    {[types |-> t, variad |-> FALSE, nret |-> n] :
        t \in UNION {Fixed(m) : m \in 0..MaxParams}, n \in 0..2}
    \cup
    {[types |-> t \o <<SliceType(e)>>, variad |-> TRUE, nret |-> n] :
        t \in UNION {Fixed(m) : m \in 0..(MaxParams - 1)},
        e \in ParamKinds, n \in 0..2}

\* func (u *AUser) GetName() string
GetName(hp, u) == [rets |-> <<StrValue(hp[u].Name)>>, heap |-> hp]

\* SetName on a copy of the struct (a value receiver): the name is lost
SetName_Lost(hp, u, name) == [rets |-> <<>>, heap |-> hp]

\* func (u *AUser) SetName(name string)
SetName(hp, u, name) == [rets |-> <<>>, heap |-> [hp EXCEPT ![u].Name = name]]

\* func (u *AUser) Do(...) (string, int): renames the user and returns the
\* new name and a number, as many of them as the signature declares
Do(hp, u) ==
    [rets |-> SubSeq(<<StrValue("FromRuleScope3"), IntValue>>, 1, doSig.nret),
     heap |-> [hp EXCEPT ![u].Name = "FromRuleScope3"]]

GetFunctionParameterTypes(obj, method) ==
    IF ~IsObject(obj) \/ method \notin MethodNames
    THEN [err |-> ErrFunction, types |-> <<>>, variad |-> FALSE]
    ELSE IF method = "GetName"
    THEN [err |-> ErrNone, types |-> <<>>, variad |-> FALSE]
    ELSE IF method = "SetName"
    THEN [err |-> ErrNone, types |-> <<KindType("string")>>, variad |-> FALSE]
    ELSE [err |-> ErrNone, types |-> doSig.types, variad |-> doSig.variad]

InvokeFunction(hp, obj, method, iargs) ==
    IF ~IsObject(obj) \/ method \notin MethodNames
    THEN [err |-> ErrFunction, rets |-> <<>>, heap |-> hp]
    ELSE IF method = "GetName"
    THEN [err |-> ErrNone] @@ GetName(hp, obj.v)
    ELSE IF method = "SetName"
    THEN [err |-> ErrNone] @@ SetName(hp, obj.v, iargs[1].v)
    ELSE [err |-> ErrNone] @@ Do(hp, obj.v)

----------------------------------------------------------------------------
(* Path resolution. A dotted path is the sequence of its segments, as      *)
(* strings.Split(variable, ".") returns it: never empty.                   *)

RECURSIVE traceType(_, _, _)
traceType(hp, obj, path) ==
    IF Len(path) = 1 THEN GetAttributeType(obj, path[1])
    ELSE IF Len(path) > 1 THEN
        LET r == GetAttributeValue(hp, obj, path[1]) IN
        IF r.err # ErrNone THEN [err |-> r.err, val |-> NilType]
        ELSE traceType(hp, ValueToInterface(r.val), Tail(path))
    ELSE [err |-> ErrNone, val |-> TypeOf(obj)]

RECURSIVE traceValue(_, _, _)
traceValue(hp, obj, path) ==
    IF Len(path) = 1 THEN GetAttributeValue(hp, obj, path[1])
    ELSE IF Len(path) > 1 THEN
        LET r == GetAttributeValue(hp, obj, path[1]) IN
        IF r.err # ErrNone THEN r
        ELSE traceValue(hp, ValueToInterface(r.val), Tail(path))
    ELSE [err |-> ErrNone, val |-> obj]

RECURSIVE traceSetValue(_, _, _, _)
traceSetValue(hp, obj, path, newValue) ==
    IF Len(path) = 1 THEN SetAttributeValue(hp, obj, path[1], newValue)
    ELSE IF Len(path) > 1 THEN
        LET r == GetAttributeValue(hp, obj, path[1]) IN
        IF r.err # ErrNone THEN [err |-> r.err, heap |-> hp]
        ELSE traceSetValue(hp, r.val, Tail(path), newValue)
    ELSE [err |-> ErrNoAttrPath, heap |-> hp]

\* the loop over the fixed parameters: the first position that ends it.
\* args[i] past the end of args is Go's index-out-of-range panic.
ErrPanic == "panic: index out of range"
FixedCount(types, variad) == IF variad THEN Len(types) - 1 ELSE Len(types)
BadFixed(types, variad, args) ==
    {i \in 1..FixedCount(types, variad) :
        \/ i > Len(args)
        \/ types[i].kind # args[i].kind /\ types[i].kind # "interface"}
\* the loop over the fixed parameters without the exception for interface{}
CheckFixed_NoInterface(types, variad, args) ==
    LET bad == {i \in 1..FixedCount(types, variad) :
                   i > Len(args) \/ types[i].kind # args[i].kind} IN
    IF bad = {} THEN ErrNone
    ELSE LET i == CHOOSE j \in bad : \A k \in bad : j <= k IN
         IF i > Len(args) THEN ErrPanic ELSE ErrArgTypes

CheckFixed(types, variad, args) ==
    LET bad == BadFixed(types, variad, args) IN
    IF bad = {} THEN ErrNone
    ELSE LET i == CHOOSE j \in bad : \A k \in bad : j <= k IN
         IF i > Len(args) THEN ErrPanic ELSE ErrArgTypes

\* the loop over the trailing arguments of a variadic method
CheckVariadic(types, variad, args) ==
    IF variad /\ \E i \in Len(types)..Len(args) : args[i].kind # types[Len(types)].elem
    THEN ErrVariadicTypes
    ELSE ErrNone

RECURSIVE traceMethod(_, _, _, _)
traceMethod(hp, obj, path, args) ==
    IF Len(path) = 1 THEN
        LET sig == GetFunctionParameterTypes(obj, path[1]) IN
        IF sig.err # ErrNone THEN [err |-> ErrFunction, val |-> NilValue, heap |-> hp]
        ELSE IF Len(sig.types) # Len(args) /\ ~sig.variad
        THEN [err |-> ErrArgCount, val |-> NilValue, heap |-> hp]
        ELSE IF CheckFixed(sig.types, sig.variad, args) # ErrNone
        THEN [err |-> CheckFixed(sig.types, sig.variad, args), val |-> NilValue, heap |-> hp]
        ELSE IF CheckVariadic(sig.types, sig.variad, args) # ErrNone
        THEN [err |-> ErrVariadicTypes, val |-> NilValue, heap |-> hp]
        ELSE
            LET iargs == [i \in 1..Len(args) |-> ValueToInterface(args[i])]
                r == InvokeFunction(hp, obj, path[1], iargs) IN
            IF r.err # ErrNone THEN [err |-> r.err, val |-> NilValue, heap |-> r.heap]
            ELSE IF Len(r.rets) > 1
            THEN [err |-> ErrMultiReturn, val |-> r.rets[1], heap |-> r.heap]
            ELSE IF Len(r.rets) = 1
            THEN [err |-> ErrNone, val |-> r.rets[1], heap |-> r.heap]
            ELSE [err |-> ErrNone, val |-> NilValue, heap |-> r.heap]
    ELSE IF Len(path) > 1 THEN
        LET r == GetAttributeValue(hp, obj, path[1]) IN
        IF r.err # ErrNone THEN [err |-> r.err, val |-> NilValue, heap |-> hp]
        ELSE traceMethod(hp, r.val, Tail(path), args)
    ELSE [err |-> ErrNoFuncPath, val |-> NilValue, heap |-> hp]

----------------------------------------------------------------------------
(* DataContext: each method as a function of the context c (and the heap)  *)

EmptyStore == [k \in {} |-> NilValue]

NewDataContext ==
    [ObjectStore |-> EmptyStore, retracted |-> <<>>, variableChangeCount |-> 0,
     complete |-> FALSE]

\* Complete on a copy of the context (a value receiver): the flag is lost
Complete_Lost(c) == c

Complete(c) == [c EXCEPT !.complete = TRUE]

IsComplete(c) == c.complete

\* a reset that leaves the counter as it is
ResetVariableChangeCount_Lost(c) == c

ResetVariableChangeCount(c) == [c EXCEPT !.variableChangeCount = 0]

IncrementVariableChangeCount(c) ==
    [c EXCEPT !.variableChangeCount = c.variableChangeCount + 1]

\* the counter compared with >= for >
HasVariableChange_GE(c) == c.variableChangeCount >= 0

HasVariableChange(c) == c.variableChangeCount > 0

\* Add that stores the object before it looks at its kind
Add_StoresThenRejects(c, key, obj) ==
    [ctx |-> [c EXCEPT !.ObjectStore =
                 [k \in DOMAIN c.ObjectStore \cup {key} |->
                     IF k = key THEN obj ELSE c.ObjectStore[k]]],
     err |-> IF obj.kind # "ptr" \/ ElemKind(obj) # "struct"
             THEN ErrInvalidFact ELSE ErrNone]

\* Add that takes the name it binds out of the retracted names
Add_Unretracts(c, key, obj) ==
    IF obj.kind # "ptr" \/ ElemKind(obj) # "struct"
    THEN [ctx |-> c, err |-> ErrInvalidFact]
    ELSE [ctx |-> [c EXCEPT !.ObjectStore =
                      [k \in DOMAIN c.ObjectStore \cup {key} |->
                          IF k = key THEN obj ELSE c.ObjectStore[k]],
                   !.retracted = SelectSeq(c.retracted, LAMBDA n : n # key)],
          err |-> ErrNone]

Add(c, key, obj) ==
    IF obj.kind # "ptr" \/ ElemKind(obj) # "struct"
    THEN [ctx |-> c, err |-> ErrInvalidFact]
    ELSE [ctx |-> [c EXCEPT !.ObjectStore =
                      [k \in DOMAIN c.ObjectStore \cup {key} |->
                          IF k = key THEN obj ELSE c.ObjectStore[k]]],
          err |-> ErrNone]

\* Retract that also drops the binding of the name
Retract_Unbinds(c, key) ==
    [c EXCEPT !.retracted = Append(c.retracted, key),
              !.ObjectStore = [k \in DOMAIN c.ObjectStore \ {key} |-> c.ObjectStore[k]]]

\* Retract as if a retraction were a change of a variable
Retract_Counting(c, key) ==
    [c EXCEPT !.retracted = Append(c.retracted, key),
              !.variableChangeCount = c.variableChangeCount + 1]

Retract(c, key) == [c EXCEPT !.retracted = Append(c.retracted, key)]

\* IsRetracted answering for the slice, not for the key
IsRetracted_Any(c, key) == c.retracted # <<>>

IsRetracted(c, key) == \E i \in 1..Len(c.retracted) : c.retracted[i] = key

Retracted(c) == c.retracted

\* Reset as if it restored the whole context, as ResetAllFiledZero does
Reset_ClearsComplete(c) == [c EXCEPT !.retracted = <<>>, !.complete = FALSE]

Reset(c) == [c EXCEPT !.retracted = <<>>]

\* ExecMethod on a copy of the fact: what the method writes is lost
ExecMethod_OnCopy(c, hp, methodName, args) ==
    IF methodName[1] \in DOMAIN c.ObjectStore THEN
        IF ~IsRetracted(c, methodName[1])
        THEN [traceMethod(hp, c.ObjectStore[methodName[1]], Tail(methodName), args)
                 EXCEPT !.heap = hp]
        ELSE [err |-> ErrRetracted, val |-> NilValue, heap |-> hp]
    ELSE [err |-> ErrNotFound, val |-> NilValue, heap |-> hp]

ExecMethod(c, hp, methodName, args) ==
    IF methodName[1] \in DOMAIN c.ObjectStore THEN
        IF ~IsRetracted(c, methodName[1])
        THEN traceMethod(hp, c.ObjectStore[methodName[1]], Tail(methodName), args)
        ELSE [err |-> ErrRetracted, val |-> NilValue, heap |-> hp]
    ELSE [err |-> ErrNotFound, val |-> NilValue, heap |-> hp]

GetType(c, hp, variable) ==
    IF variable[1] \in DOMAIN c.ObjectStore THEN
        IF ~IsRetracted(c, variable[1])
        THEN traceType(hp, c.ObjectStore[variable[1]], Tail(variable))
        ELSE [err |-> ErrRetracted, val |-> NilType]
    ELSE [err |-> ErrNotFound, val |-> NilType]

\* GetValue without the IsRetracted check
GetValue_NoRetractCheck(c, hp, variable) ==
    IF variable[1] \in DOMAIN c.ObjectStore
    THEN traceValue(hp, c.ObjectStore[variable[1]], Tail(variable))
    ELSE [err |-> ErrNotFound, val |-> NilValue]

GetValue(c, hp, variable) ==
    IF variable[1] \in DOMAIN c.ObjectStore THEN
        IF ~IsRetracted(c, variable[1])
        THEN traceValue(hp, c.ObjectStore[variable[1]], Tail(variable))
        ELSE [err |-> ErrRetracted, val |-> NilValue]
    ELSE [err |-> ErrNotFound, val |-> NilValue]

\* SetValue with the two checks in the other order: retracted before bound
SetValue_RetractedFirst(c, hp, variable, newValue) ==
    IF IsRetracted(c, variable[1]) THEN [ctx |-> c, heap |-> hp, err |-> ErrRetracted]
    ELSE IF variable[1] \in DOMAIN c.ObjectStore THEN
        LET r == traceSetValue(hp, c.ObjectStore[variable[1]], Tail(variable), newValue) IN
        [ctx |-> IF r.err = ErrNone
                 THEN [c EXCEPT !.variableChangeCount = c.variableChangeCount + 1]
                 ELSE c,
         heap |-> r.heap, err |-> r.err]
    ELSE [ctx |-> c, heap |-> hp, err |-> ErrNotFound]

\* SetValue resolving a nested path on copies, as traceValue does: the write
\* of a path deeper than one field is counted and lost
SetValue_OnCopy(c, hp, variable, newValue) ==
    IF variable[1] \in DOMAIN c.ObjectStore THEN
        IF ~IsRetracted(c, variable[1]) THEN
            LET r == traceSetValue(hp, c.ObjectStore[variable[1]], Tail(variable), newValue) IN
            [ctx |-> IF r.err = ErrNone
                     THEN [c EXCEPT !.variableChangeCount = c.variableChangeCount + 1]
                     ELSE c,
             heap |-> IF Len(variable) > 2 THEN hp ELSE r.heap, err |-> r.err]
        ELSE [ctx |-> c, heap |-> hp, err |-> ErrRetracted]
    ELSE [ctx |-> c, heap |-> hp, err |-> ErrNotFound]

\* SetValue counting every resolved call, failed or not
SetValue_CountsFailures(c, hp, variable, newValue) ==
    IF variable[1] \in DOMAIN c.ObjectStore THEN
        IF ~IsRetracted(c, variable[1]) THEN
            LET r == traceSetValue(hp, c.ObjectStore[variable[1]], Tail(variable), newValue) IN
            [ctx |-> [c EXCEPT !.variableChangeCount = c.variableChangeCount + 1],
             heap |-> r.heap, err |-> r.err]
        ELSE [ctx |-> c, heap |-> hp, err |-> ErrRetracted]
    ELSE [ctx |-> c, heap |-> hp, err |-> ErrNotFound]

SetValue(c, hp, variable, newValue) ==
    IF variable[1] \in DOMAIN c.ObjectStore THEN
        IF ~IsRetracted(c, variable[1]) THEN
            LET r == traceSetValue(hp, c.ObjectStore[variable[1]], Tail(variable), newValue) IN
            [ctx |-> IF r.err = ErrNone
                     THEN [c EXCEPT !.variableChangeCount = c.variableChangeCount + 1]
                     ELSE c,
             heap |-> r.heap, err |-> r.err]
        ELSE [ctx |-> c, heap |-> hp, err |-> ErrRetracted]
    ELSE [ctx |-> c, heap |-> hp, err |-> ErrNotFound]

ResetAllFiledZero(c) ==
    [ObjectStore |-> EmptyStore, retracted |-> <<>>, variableChangeCount |-> 0,
     complete |-> FALSE]

----------------------------------------------------------------------------
(* The store driven by an arbitrary caller *)

Rests == {<<>>, <<"Name">>, <<"Inner", "Name">>, <<"Nope">>}
Paths == {<<n>> \o r : n \in FactNames, r \in Rests}
MethodRests == {<<>>, <<"GetName">>, <<"SetName">>, <<"Inner", "SetName">>}
MethodPaths == {<<n>> \o r : n \in FactNames, r \in MethodRests}
ArgLists == {<<>>, <<StrValue("FromRuleScope3")>>}

Call(op, path, args, err, val) ==
    [op |-> op, path |-> path, args |-> args, err |-> err, val |-> val]

InitHeap == [h \in Handles |-> [Name |-> "Watson"]]

StoreInit ==
    /\ ctx = NewDataContext
    /\ heap = InitHeap
    /\ doSig = NoParams
    /\ last = Call("NewDataContext", <<>>, <<>>, ErrNone, NilValue)
    /\ hRetract = {}
    /\ hBound = {}
    /\ hComplete = FALSE
    /\ hSets = -1

EngineIdle ==
    /\ state = "Idle"
    /\ kb = <<>>
    /\ maxCycle = 1
    /\ cycle = 0
    /\ passes = 0
    /\ matched = <<>>
    /\ nmatched = 0
    /\ fired = <<>>

Init == StoreInit /\ EngineIdle

DoAdd(key, obj) ==
    LET r == Add(ctx, key, obj) IN
    /\ ctx' = r.ctx
    /\ last' = Call("Add", <<key>>, <<obj>>, r.err, NilValue)
    /\ hBound' = IF r.err = ErrNone THEN hBound \cup {key} ELSE hBound
    /\ UNCHANGED <<heap, hRetract, hComplete, hSets>>
    /\ UNCHANGED <<engineVars, doSig>>

DoRetract(key) ==
    /\ Len(ctx.retracted) < MaxRetracted
    /\ ctx' = Retract(ctx, key)
    /\ last' = Call("Retract", <<key>>, <<>>, ErrNone, NilValue)
    /\ hRetract' = hRetract \cup {key}
    /\ UNCHANGED <<heap, hBound, hComplete, hSets>>
    /\ UNCHANGED <<engineVars, doSig>>

DoReset ==
    /\ ctx' = Reset(ctx)
    /\ last' = Call("Reset", <<>>, <<>>, ErrNone, NilValue)
    /\ hRetract' = {}
    /\ UNCHANGED <<heap, hBound, hComplete, hSets>>
    /\ UNCHANGED <<engineVars, doSig>>

DoComplete ==
    /\ ctx' = Complete(ctx)
    /\ last' = Call("Complete", <<>>, <<>>, ErrNone, NilValue)
    /\ hComplete' = TRUE
    /\ UNCHANGED <<heap, hRetract, hBound, hSets>>
    /\ UNCHANGED <<engineVars, doSig>>

DoResetVariableChangeCount ==
    /\ ctx' = ResetVariableChangeCount(ctx)
    /\ last' = Call("ResetVariableChangeCount", <<>>, <<>>, ErrNone, NilValue)
    /\ hSets' = 0
    /\ UNCHANGED <<heap, hRetract, hBound, hComplete>>
    /\ UNCHANGED <<engineVars, doSig>>

DoIncrementVariableChangeCount ==
    /\ ctx.variableChangeCount < MaxCount
    /\ ctx' = IncrementVariableChangeCount(ctx)
    /\ last' = Call("IncrementVariableChangeCount", <<>>, <<>>, ErrNone, NilValue)
    /\ hSets' = -1
    /\ UNCHANGED <<heap, hRetract, hBound, hComplete>>
    /\ UNCHANGED <<engineVars, doSig>>

DoResetAllFiledZero ==
    /\ ctx' = ResetAllFiledZero(ctx)
    /\ last' = Call("ResetAllFiledZero", <<>>, <<>>, ErrNone, NilValue)
    /\ hRetract' = {}
    /\ hBound' = {}
    /\ hComplete' = FALSE
    /\ hSets' = -1
    /\ UNCHANGED heap
    /\ UNCHANGED <<engineVars, doSig>>

DoGetType(path) ==
    LET r == GetType(ctx, heap, path) IN
    /\ last' = Call("GetType", path, <<>>, r.err, r.val)
    /\ UNCHANGED <<ctx, heap, hRetract, hBound, hComplete, hSets>>
    /\ UNCHANGED <<engineVars, doSig>>

DoGetValue(path) ==
    LET r == GetValue(ctx, heap, path) IN
    /\ last' = Call("GetValue", path, <<>>, r.err, r.val)
    /\ UNCHANGED <<ctx, heap, hRetract, hBound, hComplete, hSets>>
    /\ UNCHANGED <<engineVars, doSig>>

DoSetValue(path, newValue) ==
    LET r == SetValue(ctx, heap, path, newValue) IN
    /\ ctx.variableChangeCount < MaxCount
    /\ ctx' = r.ctx
    /\ heap' = r.heap
    /\ last' = Call("SetValue", path, <<newValue>>, r.err, NilValue)
    /\ hSets' = IF hSets >= 0 /\ r.err = ErrNone THEN hSets + 1 ELSE hSets
    /\ UNCHANGED <<hRetract, hBound, hComplete>>
    /\ UNCHANGED <<engineVars, doSig>>

DoExecMethod(path, args) ==
    LET r == ExecMethod(ctx, heap, path, args) IN
    /\ heap' = r.heap
    /\ last' = Call("ExecMethod", path, args, r.err, r.val)
    /\ UNCHANGED <<ctx, hRetract, hBound, hComplete, hSets>>
    /\ UNCHANGED <<engineVars, doSig>>

\* the caller changes a field of its own object through its handle
CallerWrite(h, s) ==
    /\ heap' = [heap EXCEPT ![h].Name = s]
    /\ last' = Call("CallerWrite", <<h>>, <<StrValue(s)>>, ErrNone, NilValue)
    /\ UNCHANGED <<ctx, hRetract, hBound, hComplete, hSets>>
    /\ UNCHANGED <<engineVars, doSig>>

Next ==
    \/ \E key \in FactNames, obj \in AddInputs : DoAdd(key, obj)
    \/ \E key \in FactNames : DoRetract(key)
    \/ DoReset
    \/ DoComplete
    \/ DoResetVariableChangeCount
    \/ DoIncrementVariableChangeCount
    \/ DoResetAllFiledZero
    \/ \E path \in Paths : DoGetType(path)
    \/ \E path \in Paths : DoGetValue(path)
    \/ \E path \in Paths, newValue \in SetInputs : DoSetValue(path, newValue)
    \/ \E path \in MethodPaths, args \in ArgLists : DoExecMethod(path, args)
    \/ \E h \in Handles, s \in Strings : CallerWrite(h, s)

Spec == Init /\ [][Next]_vars

----------------------------------------------------------------------------
(* Properties of the store *)

PathOps == {"GetType", "GetValue", "SetValue", "ExecMethod"}

\* what each path operation returns on context c: its error and its value
Answer(op, c, hp, path, args) ==
    IF op = "GetType" THEN GetType(c, hp, path)
    ELSE IF op = "GetValue" THEN GetValue(c, hp, path)
    ELSE IF op = "SetValue" THEN
        [err |-> SetValue(c, hp, path, args[1]).err, val |-> NilValue]
    ELSE LET r == ExecMethod(c, hp, path, args) IN [err |-> r.err, val |-> r.val]

Unretracted(c) == [c EXCEPT !.retracted = <<>>]

\* the calls explored on a path, per operation
CallsOf(op) ==
    IF op = "SetValue" THEN {<<p, <<v>>>> : p \in Paths, v \in SetInputs}
    ELSE IF op = "ExecMethod" THEN MethodPaths \X ArgLists
    ELSE {<<p, <<>>>> : p \in Paths}

(* C1: a path operation (GetType, GetValue, SetValue, ExecMethod) on a bound
   name that Retract has named since the last Reset / ResetAllFiledZero
   fails with "fact is retracted", whatever happened in between; a path
   operation on a bound name not so named never fails that way; and right
   after Reset() every path operation answers what it answers on the same
   context with nothing retracted, the context before the Retract calls. *)
C1_RetractedUntilReset ==
    [][ /\ (/\ last'.op \in PathOps
            /\ last'.path[1] \in hBound'
            /\ last'.path[1] \in hRetract') => last'.err = ErrRetracted
        /\ (/\ last'.op \in PathOps
            /\ last'.path[1] \in hBound'
            /\ last'.path[1] \notin hRetract')
              => last'.err \notin {ErrRetracted, ErrNotFound}
        /\ last'.op = "Reset" =>
              \A op \in PathOps : \A call \in CallsOf(op) :
                  Answer(op, ctx', heap', call[1], call[2])
                      = Answer(op, Unretracted(ctx), heap, call[1], call[2])
      ]_vars

\* a bound fact was retracted, something else was retracted after it, and
\* a read of its field is refused
C1_Witness ==
    /\ last.op = "GetValue"
    /\ last.path = <<"User", "Name">>
    /\ last.err = ErrRetracted
    /\ "User" \in hBound
    /\ ctx.retracted = <<"User", "Order">>

(* C2: a path operation on a name Add has not bound since the last
   ResetAllFiledZero returns the fact-not-found error, also when the name
   is in the retraction set, and leaves the mutation counter as it was. *)
C2_NotFoundFirst ==
    [][ (last'.op \in PathOps /\ last'.path[1] \notin hBound') =>
            /\ last'.err = ErrNotFound
            /\ ctx'.variableChangeCount = ctx.variableChangeCount
      ]_vars

\* SetValue on a name that is retracted and was never bound
C2_Witness ==
    /\ last.op = "SetValue"
    /\ last.path[1] \notin hBound
    /\ IsRetracted(ctx, last.path[1])
    /\ last.err = ErrNotFound

(* C3: a successful SetValue adds exactly one to the mutation counter and a
   failed one leaves it; so after ResetVariableChangeCount and any calls
   that include no IncrementVariableChangeCount the counter is the number
   of successful SetValue calls, and HasVariableChange() is true iff that
   number is at least one. *)
C3_CounterCountsSets ==
    [][ /\ last'.op = "SetValue" =>
              ctx'.variableChangeCount =
                  ctx.variableChangeCount + (IF last'.err = ErrNone THEN 1 ELSE 0)
        /\ hSets' >= 0 =>
              /\ ctx'.variableChangeCount = hSets'
              /\ HasVariableChange(ctx') <=> hSets' >= 1
      ]_vars

\* the second successful SetValue after a counter reset
C3_Witness ==
    /\ last.op = "SetValue"
    /\ last.err = ErrNone
    /\ hSets = 2
    /\ ctx.variableChangeCount = 2

(* C4 as stated: whenever the mutation counter grows, the call was a
   successful SetValue (no other operation of the interface increments). *)
C4_OnlySetValue ==
    [][ ctx'.variableChangeCount > ctx.variableChangeCount =>
            (last'.op = "SetValue" /\ last'.err = ErrNone)
      ]_vars

(* C4, amended: the mutation counter grows only by a successful SetValue or
   by IncrementVariableChangeCount; GetType, GetValue, ExecMethod (a setter
   included), Add, Retract, Reset and Complete never change it. *)
C4_OnlySetValueOrIncrement ==
    [][ /\ ctx'.variableChangeCount > ctx.variableChangeCount =>
              \/ last'.op = "SetValue" /\ last'.err = ErrNone
              \/ last'.op = "IncrementVariableChangeCount"
        /\ last'.op \in {"GetType", "GetValue", "ExecMethod", "Add", "Retract",
                          "Reset", "Complete"} =>
              ctx'.variableChangeCount = ctx.variableChangeCount
      ]_vars

\* a setter run through ExecMethod has changed the fact object and the
\* counter, reset before, is still zero
C4_Witness ==
    /\ last.op = "ExecMethod"
    /\ last.path = <<"User", "SetName">>
    /\ last.err = ErrNone
    /\ "User" \in DOMAIN ctx.ObjectStore
    /\ heap[ctx.ObjectStore["User"].v].Name = "FromRuleScope3"
    /\ hSets = 0
    /\ ctx.variableChangeCount = 0

(* C10: the completion flag is false in a new store; once Complete() was
   called IsComplete() is true until ResetAllFiledZero, whatever else is
   called; only ResetAllFiledZero turns it from true to false. *)
C10_CompleteSticks ==
    /\ ~IsComplete(ctx)
    /\ [][ /\ hComplete' => IsComplete(ctx')
           /\ (IsComplete(ctx) /\ ~IsComplete(ctx')) => last'.op = "ResetAllFiledZero"
           /\ last'.op = "ResetAllFiledZero" => ~IsComplete(ctx')
         ]_vars

\* Complete() was called, then facts were retracted and restored, and
\* IsComplete() still answers true
C10_Witness ==
    /\ hComplete
    /\ IsComplete(ctx)
    /\ last.op = "Reset"
    /\ "User" \in hBound

(* C11: Retract and Reset change the retracted names and nothing else: the
   name-to-object map, the field values of the caller's objects, the
   mutation counter and the complete flag are the same after the call, and
   so is what GetValue answers on every path once the retraction is set
   aside; after Reset, GetValue itself answers what it answered before the
   names were retracted. *)
C11_RetractResetFrame ==
    [][ last'.op \in {"Retract", "Reset"} =>
            /\ ctx'.ObjectStore = ctx.ObjectStore
            /\ heap' = heap
            /\ ctx'.variableChangeCount = ctx.variableChangeCount
            /\ ctx'.complete = ctx.complete
            /\ \A path \in Paths :
                   GetValue(Unretracted(ctx'), heap', path)
                       = GetValue(Unretracted(ctx), heap, path)
            /\ last'.op = "Reset" =>
                   \A path \in Paths :
                       GetValue(ctx', heap', path)
                           = GetValue(Unretracted(ctx), heap, path)
      ]_vars

\* a bound fact whose field was written, with the counter and the flag set,
\* is retracted a second time
C11_Witness ==
    /\ last.op = "Retract"
    /\ ctx.retracted = <<"User", "User">>
    /\ "User" \in DOMAIN ctx.ObjectStore
    /\ ctx.ObjectStore["User"] = PtrValue("h1")
    /\ heap["h1"].Name = "FromRuleScope3"
    /\ ctx.variableChangeCount = 1
    /\ ctx.complete

\* a context that binds key to obj and nothing else
Only(key, obj) ==
    [ObjectStore |-> [k \in {key} |-> obj], retracted |-> <<>>,
     variableChangeCount |-> 0, complete |-> FALSE]

(* C12: Add(key, obj) with an obj that is not a pointer to a struct returns
   the "you can only insert a pointer to struct as fact" error and changes
   neither the context nor the objects, so an earlier binding of key stays;
   Add with a pointer to a struct returns no error, binds key to obj in
   place of any earlier binding and leaves every other binding alone, and
   from then on every path operation on key, retraction aside, answers what
   it answers on a context that binds key to obj alone. *)
C12_AddChecksKind ==
    /\ [][ last'.op = "Add" =>
              LET key == last'.path[1]
                  obj == last'.args[1] IN
              IF obj \in {PtrValue(h) : h \in Handles}
              THEN /\ last'.err = ErrNone
                   /\ DOMAIN ctx'.ObjectStore = DOMAIN ctx.ObjectStore \cup {key}
                   /\ ctx'.ObjectStore[key] = obj
                   /\ \A k \in DOMAIN ctx.ObjectStore \ {key} :
                          ctx'.ObjectStore[k] = ctx.ObjectStore[k]
                   /\ heap' = heap
              ELSE /\ last'.err = ErrInvalidFact
                   /\ ctx' = ctx
                   /\ heap' = heap
          ]_vars
    /\ [](last.op = "Add" /\ last.err = ErrNone =>
              \A op \in PathOps : \A call \in CallsOf(op) :
                  call[1][1] = last.path[1] =>
                      Answer(op, Unretracted(ctx), heap, call[1], call[2])
                          = Answer(op, Only(last.path[1], last.args[1]), heap,
                                   call[1], call[2]))

\* a struct handed to Add under a name that is bound: refused, binding kept
C12_Witness ==
    /\ last.op = "Add"
    /\ last.path = <<"User">>
    /\ last.args = <<StructValue>>
    /\ last.err = ErrInvalidFact
    /\ "User" \in DOMAIN ctx.ObjectStore
    /\ ctx.ObjectStore["User"] = PtrValue("h2")
    /\ "User" \in hBound

\* the caller's handle a path on a bound name ends in: the bound object
\* for name.X, the object its Inner points to for name.Inner.X
Target(c, path) ==
    IF Len(path) = 2 THEN c.ObjectStore[path[1]].v
    ELSE InnerOf(c.ObjectStore[path[1]].v)

(* C13: the store holds the caller's pointer, never a copy of the object.
   GetValue on a field of a bound, not retracted fact returns the value the
   caller's object holds now, for name.Name and for name.Inner.Name, so a
   write the caller makes through its handle is what the next GetValue
   returns; a successful SetValue, and a successful SetName run by
   ExecMethod, changes the Name of the caller's object the path ends in, at
   either depth, and of no other object. *)
C13_SharesCallerObject ==
    /\ [](\A key \in DOMAIN ctx.ObjectStore : key \notin hRetract =>
             LET h == ctx.ObjectStore[key].v IN
             /\ GetValue(ctx, heap, <<key, "Name">>)
                    = [err |-> ErrNone, val |-> StrValue(heap[h].Name)]
             /\ InnerOf(h) \in Handles =>
                    GetValue(ctx, heap, <<key, "Inner", "Name">>)
                        = [err |-> ErrNone, val |-> StrValue(heap[InnerOf(h)].Name)])
    /\ [][ /\ last'.op = "CallerWrite" =>
                 \A key \in DOMAIN ctx'.ObjectStore :
                     (key \notin hRetract' /\ ctx'.ObjectStore[key].v = last'.path[1])
                         => GetValue(ctx', heap', <<key, "Name">>).val = last'.args[1]
           /\ (/\ last'.err = ErrNone
               /\ \/ last'.op = "SetValue"
                  \/ /\ last'.op = "ExecMethod"
                     /\ last'.path[Len(last'.path)] = "SetName")
                 => LET t == Target(ctx, last'.path) IN
                    /\ heap'[t].Name = last'.args[1].v
                    /\ \A h \in Handles \ {t} : heap'[h] = heap[h]
         ]_vars

\* SetName run on User.Inner changed the object the caller holds as h2
C13_Witness ==
    /\ last.op = "ExecMethod"
    /\ last.path = <<"User", "Inner", "SetName">>
    /\ last.err = ErrNone
    /\ ctx.ObjectStore["User"] = PtrValue("h1")
    /\ heap["h1"].Name = "Watson"
    /\ heap["h2"].Name = "FromRuleScope3"

(* C17: the retracted names form a set. Retracted() lists exactly the names
   for which IsRetracted is true, each of them once, so that a second
   Retract of a name changes nothing; after Reset() Retracted() is empty
   and IsRetracted is false for every name. *)
C17_RetractedIsASet ==
    /\ {Retracted(ctx)[i] : i \in 1..Len(Retracted(ctx))}
           = {name \in FactNames : IsRetracted(ctx, name)}
    /\ \A i, j \in 1..Len(Retracted(ctx)) :
           Retracted(ctx)[i] = Retracted(ctx)[j] => i = j
    /\ last.op = "Reset" =>
           /\ Retracted(ctx) = <<>>
           /\ \A name \in FactNames : ~IsRetracted(ctx, name)

(* C20: Add leaves the retracted names as they are, whether it binds a name
   for the first time, replaces a binding or refuses the object. So a name
   given to Retract, before its first Add or after it, is retracted as soon
   as and as long as it is bound: every path operation on it answers "fact
   is retracted", until Reset() or ResetAllFiledZero() is called. *)
C20_AddKeepsRetracted ==
    /\ [][ last'.op = "Add" => Retracted(ctx') = Retracted(ctx) ]_vars
    /\ [](\A key \in DOMAIN ctx.ObjectStore : key \in hRetract =>
             \A op \in PathOps : \A call \in CallsOf(op) :
                 call[1][1] = key =>
                     Answer(op, ctx, heap, call[1], call[2]).err = ErrRetracted)

\* Order was retracted before it was ever bound, and then added
C20_Witness ==
    /\ last.op = "Add"
    /\ last.path = <<"Order">>
    /\ last.err = ErrNone
    /\ ctx.retracted = <<"Order">>
    /\ hRetract = {"Order"}
    /\ DOMAIN ctx.ObjectStore = {"Order"}
    /\ hBound = {"Order"}
    /\ ctx.variableChangeCount = 0
    /\ ~ctx.complete
    /\ heap = InitHeap

----------------------------------------------------------------------------
(* Calls of a method of any signature with any argument list: the fact     *)
(* User is bound to h1, whose method Do is declared with doSig             *)

\* Do on the fact and on the object its Inner points to
DoPaths == {<<"User", "Do">>, <<"User", "Inner", "Do">>}

\* the argument lists: up to MaxArgs strings and ints
DoArgLists == UNION {[1..n -> {StrValue("Watson"), IntValue}] : n \in 0..MaxArgs}

MethodInit ==
    /\ ctx = Add(NewDataContext, "User", PtrValue("h1")).ctx
    /\ heap = InitHeap
    /\ doSig \in Signatures
    /\ last = Call("Add", <<"User">>, <<PtrValue("h1")>>, ErrNone, NilValue)
    /\ hRetract = {}
    /\ hBound = {"User"}
    /\ hComplete = FALSE
    /\ hSets = -1
    /\ EngineIdle

MethodNext ==
    \/ \E path \in DoPaths, args \in DoArgLists : DoExecMethod(path, args)
    \/ \E h \in Handles : CallerWrite(h, "Watson")

MethodSpec == MethodInit /\ [][MethodNext]_vars

\* the parameters before the variadic one
DoFixed == IF doSig.variad THEN Len(doSig.types) - 1 ELSE Len(doSig.types)

\* argument i is of the kind parameter i is declared with, or the
\* parameter is an interface{}
KindFits(args, i) ==
    doSig.types[i].kind = args[i].kind \/ doSig.types[i].kind = "interface"

\* the arguments fit the signature of Do
ArgsFit(args) ==
    /\ IF doSig.variad THEN Len(args) >= DoFixed ELSE Len(args) = DoFixed
    /\ \A i \in 1..DoFixed : KindFits(args, i)
    /\ \A i \in (DoFixed + 1)..Len(args) :
           args[i].kind = doSig.types[Len(doSig.types)].elem

(* C14: ExecMethod of Do on a bound, not retracted fact. If Do is not
   variadic and the number of arguments is not the number of parameters,
   the error is "invalid argument count", whatever the kinds are; otherwise
   if some supplied argument's kind differs from the kind of its fixed
   parameter and that parameter is not an interface{}, the error is
   "invalid argument types"; if the arguments fit and Do returns two
   values, the error is "multiple return value"; the call returns no error
   exactly when the arguments fit and Do returns at most one value, and
   then it returns that value, or the invalid value when there is none. *)
C14_ClassifiesCalls ==
    last.op = "ExecMethod" =>
        LET args == last.args IN
        /\ (~doSig.variad /\ Len(args) # Len(doSig.types))
              => last.err = ErrArgCount
        /\ (/\ doSig.variad \/ Len(args) = Len(doSig.types)
            /\ \E i \in 1..DoFixed : i <= Len(args) /\ ~KindFits(args, i))
              => last.err = ErrArgTypes
        /\ (ArgsFit(args) /\ doSig.nret > 1) => last.err = ErrMultiReturn
        /\ last.err = ErrNone <=> (ArgsFit(args) /\ doSig.nret <= 1)
        /\ last.err = ErrNone =>
              last.val = IF doSig.nret = 1 THEN StrValue("FromRuleScope3")
                         ELSE NilValue

\* Do(a interface{}, b int) string was called with an int and an int
C14_Witness ==
    /\ last.op = "ExecMethod"
    /\ doSig = [types |-> <<KindType("interface"), KindType("int")>>,
                variad |-> FALSE, nret |-> 1]
    /\ last.args = <<IntValue, IntValue>>
    /\ last.err = ErrNone
    /\ last.val = StrValue("FromRuleScope3")
    /\ heap["h1"].Name = "FromRuleScope3"

(* C18: for every signature of Do and every argument list, ExecMethod
   returns a value or an error and never reads an argument the list does
   not hold; when Do is variadic, the arguments are accepted exactly when
   every fixed parameter has an argument of a fitting kind and every
   argument after them is of the kind of the variadic parameter's element,
   none after them being enough. *)
C18_NeverReadsPastArgs ==
    last.op = "ExecMethod" =>
        /\ last.err # ErrPanic
        /\ doSig.variad =>
              (last.err \notin {ErrArgCount, ErrArgTypes, ErrVariadicTypes, ErrPanic}
                  <=> ArgsFit(last.args))

(* C19: a path operation (GetType, GetValue, SetValue, ExecMethod) that
   returns an error, whichever it is, leaves the context (the name-to-object
   map, the retracted names, the counter, the complete flag) and every
   field of the caller's objects as they were before the call: a method
   call that is refused has not run the method. *)
C19_ErrorChangesNothing ==
    [][ (last'.op \in PathOps /\ last'.err # ErrNone) =>
            (ctx' = ctx /\ heap' = heap) ]_vars

----------------------------------------------------------------------------
(* The execution cycle: Idle -> Evaluating -> Firing ->                    *)
(* Converged | Halted | CycleExceeded                                      *)

\* largest knowledge base explored
MaxRules == 2
\* eng1 := &engine.GruleEngine{MaxCycle: 5}
Issue5MaxCycle == 5

Terminals == {"Converged", "Halted", "CycleExceeded"}

Rule(name, salience, cond, actions) ==
    [name |-> name, salience |-> salience, cond |-> cond, actions |-> actions]
Act(kind, arg) == [kind |-> kind, arg |-> arg]

\* rule UserTestRule3 "test 3" salience 10
\*   when User.GetName() == "Watson"
\*   then User.SetName("FromRuleScope3"); Retract("UserTestRule3");
UserTestRule3 ==
    Rule("UserTestRule3", 10, "NameIsWatson",
         <<Act("SetName", "FromRuleScope3"), Act("Retract", "UserTestRule3")>>)

\* the rules knowledge bases are drawn from
Catalogue ==
    { UserTestRule3,
      Rule("Always", 5, "True", <<Act("GetName", "")>>),
      Rule("Write", 10, "NameIsWatson", <<Act("SetField", "FromRuleScope3")>>),
      Rule("Copy", 5, "True", <<Act("CopyName", "")>>),
      Rule("Rename", 5, "True", <<Act("SetName", "FromRuleScope3")>>),
      Rule("Stop", 10, "NameIsNew", <<Act("Complete", ""), Act("GetName", "")>>),
      Rule("Halt", 5, "True", <<Act("Complete", "")>>),
      Rule("Drop", 5, "NameIsWatson", <<Act("Retract", "User")>>),
      Rule("Mute", 10, "NameIsWatson",
           <<Act("Retract", "Always"), Act("SetName", "FromRuleScope3")>>) }

KnowledgeBases ==
    UNION {{k \in [1..n -> Catalogue] : \A i, j \in 1..n : k[i] = k[j] => i = j}
           : n \in 1..MaxRules}

\* a condition, evaluated through the store; a failing path operation makes it false
Evaluate(c, hp, cond) ==
    IF cond = "True" THEN TRUE
    ELSE
        LET r == ExecMethod(c, hp, <<"User", "GetName">>, <<>>) IN
        /\ r.err = ErrNone
        /\ r.val = StrValue(IF cond = "NameIsWatson" THEN "Watson" ELSE "FromRuleScope3")

\* one action statement on the live store; a failing statement changes nothing
Perform(w, a) ==
    IF a.kind = "SetName" THEN
        [w EXCEPT !.heap = ExecMethod(w.ctx, w.heap, <<"User", "SetName">>,
                                      <<StrValue(a.arg)>>).heap]
    ELSE IF a.kind = "GetName" THEN
        [w EXCEPT !.heap = ExecMethod(w.ctx, w.heap, <<"User", "GetName">>, <<>>).heap]
    ELSE IF a.kind = "SetField" THEN
        LET r == SetValue(w.ctx, w.heap, <<"User", "Name">>, StrValue(a.arg)) IN
        [ctx |-> r.ctx, heap |-> r.heap]
    ELSE IF a.kind = "CopyName" THEN
        LET g == GetValue(w.ctx, w.heap, <<"User", "Name">>) IN
        IF g.err # ErrNone THEN w
        ELSE LET r == SetValue(w.ctx, w.heap, <<"User", "Inner", "Name">>, g.val) IN
             [ctx |-> r.ctx, heap |-> r.heap]
    ELSE IF a.kind = "Retract" THEN [w EXCEPT !.ctx = Retract(w.ctx, a.arg)]
    ELSE [w EXCEPT !.ctx = Complete(w.ctx)]

RECURSIVE Execute(_, _)
Execute(w, actions) ==
    IF actions = <<>> THEN w
    ELSE Execute(Perform(w, Head(actions)), Tail(actions))

\* rule i fires before rule j: higher salience first, then knowledge base order
FiresBefore(k, i, j) ==
    \/ k[i].salience > k[j].salience
    \/ k[i].salience = k[j].salience /\ i < j

RECURSIVE Order(_, _)
Order(k, S) ==
    IF S = {} THEN <<>>
    ELSE LET i == CHOOSE x \in S : \A y \in S \ {x} : FiresBefore(k, x, y) IN
         <<i>> \o Order(k, S \ {i})

Runnable(c, hp, k) ==
    {i \in 1..Len(k) : ~IsRetracted(c, k[i].name) /\ Evaluate(c, hp, k[i].cond)}

\* the budget compared before the pass counter is incremented
AfterPass_OffByOne(c, n, cyc, max) ==
    IF IsComplete(c) THEN "Halted"
    ELSE IF ~HasVariableChange(c) /\ n = 0 THEN "Converged"
    ELSE IF cyc = max THEN "CycleExceeded"
    ELSE "Evaluating"

\* where the driver goes after the last matched rule of a pass has fired
AfterPass(c, n, cyc, max) ==
    IF IsComplete(c) THEN "Halted"
    ELSE IF ~HasVariableChange(c) /\ n = 0 THEN "Converged"
    ELSE IF cyc + 1 = max THEN "CycleExceeded"
    ELSE "Evaluating"

EngineInit ==
    /\ \E done \in BOOLEAN :
          ctx = [Add(NewDataContext, "User", PtrValue("h1")).ctx EXCEPT !.complete = done]
    /\ heap = InitHeap
    /\ doSig = NoParams
    /\ last = Call("Add", <<"User">>, <<PtrValue("h1")>>, ErrNone, NilValue)
    /\ hRetract = {}
    /\ hBound = {"User"}
    /\ hComplete = ctx.complete
    /\ hSets = -1
    /\ state = "Idle"
    /\ kb \in KnowledgeBases
    /\ maxCycle \in (1..MaxCycleBound) \cup {Issue5MaxCycle}
    /\ cycle = 0
    /\ passes = 0
    /\ matched = <<>>
    /\ nmatched = 0
    /\ fired = <<>>

Start ==
    /\ state = "Idle"
    /\ state' = "Evaluating"
    /\ UNCHANGED <<ctx, heap, kb, maxCycle, cycle, passes, matched, nmatched, fired>>
    /\ UNCHANGED <<historyVars, doSig>>

Evaluating ==
    /\ state = "Evaluating"
    /\ ctx' = ResetVariableChangeCount(ctx)
    /\ matched' = Order(kb, Runnable(ctx', heap, kb))
    /\ nmatched' = Len(matched')
    /\ passes' = passes + 1
    /\ fired' = Append(fired, <<>>)
    /\ state' = "Firing"
    /\ UNCHANGED <<heap, kb, maxCycle, cycle>>
    /\ UNCHANGED <<historyVars, doSig>>

Firing ==
    /\ state = "Firing"
    /\ matched # <<>>
    /\ LET i == Head(matched)
           w == Execute([ctx |-> ctx, heap |-> heap], kb[i].actions) IN
        /\ ctx' = w.ctx
        /\ heap' = w.heap
        /\ fired' = [fired EXCEPT ![Len(fired)] =
                        Append(@, [rule |-> i, saw |-> heap, left |-> w.heap,
                                   sets |-> w.ctx.variableChangeCount
                                              - ctx.variableChangeCount])]
    /\ matched' = Tail(matched)
    /\ UNCHANGED <<state, kb, maxCycle, cycle, passes, nmatched>>
    /\ UNCHANGED <<historyVars, doSig>>

EndPass ==
    /\ state = "Firing"
    /\ matched = <<>>
    /\ state' = AfterPass(ctx, nmatched, cycle, maxCycle)
    /\ cycle' = IF state' \in {"Evaluating", "CycleExceeded"} THEN cycle + 1 ELSE cycle
    /\ UNCHANGED <<ctx, heap, kb, maxCycle, passes, matched, nmatched, fired>>
    /\ UNCHANGED <<historyVars, doSig>>

EngineNext ==
    \/ Start
    \/ Evaluating
    \/ Firing
    \/ EndPass

EngineSpec == EngineInit /\ [][EngineNext]_vars

\* Execute runs to completion: no step of it suspends or yields
FairEngineSpec == EngineSpec /\ WF_vars(EngineNext)

----------------------------------------------------------------------------
(* Properties of the execution cycle *)

Kinds(r) == {r.actions[a].kind : a \in 1..Len(r.actions)}

\* a rule that always matches and whose actions only read
QuietAlways(r) == r.cond = "True" /\ Kinds(r) \subseteq {"GetName"}

Firings == [p \in 1..Len(fired) |-> Len(fired[p])]
RECURSIVE Sum(_)
Sum(q) == IF q = <<>> THEN 0 ELSE Head(q) + Sum(Tail(q))

\* a rule fired in pass p has Complete() among its actions
CompletedIn(p) ==
    \E a \in 1..Len(fired[p]) : "Complete" \in Kinds(kb[fired[p][a].rule])

(* C5: Execute terminates in one of Converged, Halted, CycleExceeded and
   stays there, and it never starts more than maxCycle passes. *)
C5_Terminates ==
    /\ [](passes <= maxCycle)
    /\ <>[](state \in Terminals)

\* the budget is used up: the last of at least two passes has ended
C5_Witness ==
    /\ state = "CycleExceeded"
    /\ passes = maxCycle
    /\ maxCycle >= 2

(* C6 as stated: when the knowledge base contains a rule that always
   matches and only reads, Execute ends in CycleExceeded after exactly
   maxCycle passes (here even from a store whose completion flag is clear). *)
C6_QuietRuleExceeds ==
    (/\ \E i \in 1..Len(kb) : QuietAlways(kb[i])
     /\ ~hComplete
     /\ state \in Terminals)
        => (state = "CycleExceeded" /\ passes = maxCycle)

(* C6, amended: when the knowledge base contains a rule that always matches
   and only reads, no action of any rule calls Complete() or retracts that
   rule, and the completion flag is clear when Execute starts, Execute ends
   in CycleExceeded after exactly maxCycle passes, in each of which that
   rule fired. *)
C6_QuietRuleExceedsUnlessStopped ==
    \A i \in 1..Len(kb) :
        (/\ QuietAlways(kb[i])
         /\ ~hComplete
         /\ \A j \in 1..Len(kb) : \A a \in 1..Len(kb[j].actions) :
                /\ kb[j].actions[a].kind # "Complete"
                /\ kb[j].actions[a] # Act("Retract", kb[i].name)
         /\ state \in Terminals)
            => /\ state = "CycleExceeded"
               /\ passes = maxCycle
               /\ \A p \in 1..Len(fired) : \E a \in 1..Len(fired[p]) : fired[p][a].rule = i

\* the quiet rule ran beside a rule that retracted itself, for the whole
\* budget of the test
C6_Witness ==
    /\ \E i \in 1..Len(kb) : QuietAlways(kb[i])
    /\ \E i \in 1..Len(kb) : kb[i] = UserTestRule3
    /\ ~hComplete
    /\ maxCycle = Issue5MaxCycle
    /\ passes = maxCycle
    /\ state = "CycleExceeded"

(* C7: in every pass the rules fire in descending salience, equal saliences
   in knowledge base order; every matched rule fires; each rule fires on
   the store as the rule before it left it, so that a rule of salience 5
   copying User.Name reads what a rule of salience 10 wrote in that pass. *)
C7_SalienceOrder ==
    /\ \A p \in 1..Len(fired) : \A a, b \in 1..Len(fired[p]) :
          LET ra == fired[p][a].rule
              rb == fired[p][b].rule IN
          /\ a < b => \/ kb[ra].salience > kb[rb].salience
                      \/ kb[ra].salience = kb[rb].salience /\ ra < rb
          /\ b = a + 1 => fired[p][b].saw = fired[p][a].left
    /\ state = "Firing" => Len(fired[passes]) + Len(matched) = nmatched
    /\ (/\ Len(kb) = 2
        /\ kb[1].name = "Copy"
        /\ kb[2].name = "Write"
        /\ passes = 1
        /\ Len(fired[1]) = 2)
          => /\ fired[1][1].rule = 2
             /\ heap["h1"].Name = "FromRuleScope3"
             /\ heap["h2"].Name = "FromRuleScope3"

\* the rule registered second, of salience 10, fired first and the rule of
\* salience 5 copied the name it wrote
C7_Witness ==
    /\ Len(kb) = 2
    /\ kb[1].name = "Copy"
    /\ kb[2].name = "Write"
    /\ passes = 1
    /\ Len(fired[1]) = 2
    /\ fired[1][2].saw["h1"].Name = "FromRuleScope3"
    /\ heap["h2"].Name = "FromRuleScope3"

(* C8: once an action has called Complete() in a pass, the other matched
   rules of that pass still fire, no further pass starts, and Execute ends
   in Halted; a set completion flag at the end of a pass always gives
   Halted, never Converged or CycleExceeded. *)
C8_CompleteHalts ==
    /\ \A p \in 1..Len(fired) :
          CompletedIn(p) =>
              /\ passes = p
              /\ state \in {"Firing", "Halted"}
              /\ state = "Halted" => Len(fired[p]) = nmatched
    /\ (state \in Terminals /\ IsComplete(ctx)) => state = "Halted"

\* Complete() was called in the second pass of a budget of two, by the
\* rule that fired first, and the rule after it fired too
C8_Witness ==
    /\ state = "Halted"
    /\ maxCycle = 2
    /\ passes = 2
    /\ Len(fired[2]) = 2
    /\ "Complete" \in Kinds(kb[fired[2][1].rule])
    /\ "Complete" \notin Kinds(kb[fired[2][2].rule])

Issue5 ==
    /\ kb = <<UserTestRule3>>
    /\ maxCycle = Issue5MaxCycle
    /\ ~hComplete

(* C9: with the fact User named "Watson", the one rule UserTestRule3 and
   maxCycle = 5, Execute never reaches CycleExceeded and starts at most two
   passes; when it has ended it has Converged, the rule has fired exactly
   once, and the caller's object holds the new name. *)
C9_Issue5 ==
    Issue5 =>
        /\ passes <= 2
        /\ Sum(Firings) <= 1
        /\ state # "CycleExceeded"
        /\ state \in Terminals =>
              /\ state = "Converged"
              /\ Sum(Firings) = 1
              /\ heap["h1"].Name = "FromRuleScope3"

\* the test's run has ended
C9_Witness ==
    /\ Issue5
    /\ state = "Converged"
    /\ passes = 2
    /\ heap["h1"].Name = "FromRuleScope3"

\* the increments of the counter the rules fired in pass p caused
Writes(p) == Sum([a \in 1..Len(fired[p]) |-> fired[p][a].sets])

\* the step that ends a pass: every matched rule has fired
EndOfPass == state = "Firing" /\ matched = <<>> /\ state' # "Firing"

(* C15: while a pass fires, the counter holds the increments of that pass
   alone. At the end of a pass with the complete flag not set, Execute ends
   in Converged exactly when the counter is still zero and no rule matched
   in the pass; after a pass in which a rule matched or a field was written
   comes another pass or CycleExceeded, never Converged. *)
C15_ConvergedIffQuiet ==
    /\ [](state = "Firing" => ctx.variableChangeCount = Writes(passes))
    /\ [][ (EndOfPass /\ ~ctx.complete) =>
              /\ state' = "Converged"
                    <=> (Writes(passes) = 0 /\ Len(fired[passes]) = 0)
              /\ (Writes(passes) > 0 \/ Len(fired[passes]) > 0)
                    => state' \in {"Evaluating", "CycleExceeded"}
         ]_vars

\* the first pass wrote a field, the second matched nothing and wrote
\* nothing, and Execute converged
C15_Witness ==
    /\ state = "Converged"
    /\ passes = 2
    /\ Len(fired[1]) = 1
    /\ Writes(1) = 1
    /\ Len(fired[2]) = 0
    /\ ctx.variableChangeCount = 0
    /\ ~ctx.complete

(* C16, as the claim states it: a pass that caused no increment of the
   counter ends the execution, whether or not a rule matched in it. *)
C16_QuietPassStops ==
    [][ (EndOfPass /\ Writes(passes) = 0) => state' \in Terminals ]_vars

(* C16: a pass that caused no increment of the counter and in which no rule
   matched ends the execution: in Converged, or in Halted when the complete
   flag is set. A pass that caused no increment but in which some rule
   matched does not end it for that reason: with the complete flag not set,
   another pass follows, or CycleExceeded when that pass was the last the
   budget allows. *)
C16_QuietPassStopsIfUnmatched ==
    [][ (EndOfPass /\ Writes(passes) = 0) =>
            /\ Len(fired[passes]) = 0 =>
                  state' = IF ctx.complete THEN "Halted" ELSE "Converged"
            /\ (Len(fired[passes]) > 0 /\ ~ctx.complete) =>
                  state' = IF passes = maxCycle THEN "CycleExceeded"
                           ELSE "Evaluating"
      ]_vars

\* a pass fired a rule that wrote nothing, and the next pass has started
C16_Witness ==
    /\ passes = 2
    /\ Len(fired[1]) = 1
    /\ Writes(1) = 0
    /\ ~ctx.complete
    /\ state = "Firing"
====
